---- MODULE Spec2Model ----
(***************************************************************************)
(* Model of couchdb/design.py: design-document definitions, the            *)
(* synchroniser DesignDefinition.sync_many and ViewDefinition.__call__.    *)
(*                                                                         *)
(* Representation.  A Python dict is a function whose domain is the set of *)
(* keys that are present (so "key in doc" is  key \in DOMAIN doc).  A      *)
(* string that the code takes apart or builds ('_design/' + name,          *)
(* design + '/' + name) is a sequence of tokens; function bodies, language *)
(* tags and option values are opaque strings.  None is the token None.     *)
(***************************************************************************)
EXTENDS Integers, Sequences, FiniteSets, TLC

VARIABLES db, dbWriter, pending, last

vars == <<db, dbWriter, pending, last>>

\* ------------------------------------------------------------------ bounds
\* longest list of definitions the caller builds for sync_many
MaxLen == 3

\* --------------------------------------------------------- dict primitives
None == "<None>"

\* the empty dict {}
Empty == [k \in {} |-> None]

\* d[k] = v
Put(d, k, v) == [x \in (DOMAIN d) \cup {k} |-> IF x = k THEN v ELSE d[x]]

\* del d[k]
Del(d, k) == [x \in (DOMAIN d) \ {k} |-> d[x]]

\* d.setdefault(k, {}) : the dict afterwards
SetDefault(d, k) == IF k \in DOMAIN d THEN d ELSE Put(d, k, Empty)

\* list(d.get(k, {}).keys())
Keys(d, k) == IF k \in DOMAIN d THEN DOMAIN d[k] ELSE {}

\* Python truth value of an optional string: None and '' are false
Truthy(s) == s # None /\ s # ""

\* ------------------------------------------------- definition construction
DesignPrefix == "_design/"

\* design.startswith('_design/') ... design = design[8:]
StripPrefix(design) ==
    IF Len(design) > 0 /\ Head(design) = DesignPrefix THEN Tail(design)
                                                       ELSE design

\* the assertion of DesignDefinition.__init__: must have a map or filter
AssertHolds(map_fun, filter_fun) == ~(map_fun = None /\ filter_fun = None)

\* DesignDefinition.__init__ (bodies are given already dedented)
DesignDefinition(design, name, map_fun, reduce_fun, language, options, filter_fun, defaults) ==
    [cls        |-> "DesignDefinition",
     design     |-> StripPrefix(design),
     name       |-> name,
     map_fun    |-> map_fun,
     reduce_fun |-> reduce_fun,
     filter_fun |-> filter_fun,
     language   |-> language,
     options    |-> options,
     defaults   |-> defaults]

\* ViewDefinition.__init__: kwargs are the keyword arguments other than the
\* named parameters; 'wrapper' is a named parameter, so it is taken out of
\* the keywords and never lands in defaults
ViewDefinition(design, name, map_fun, reduce_fun, language, options, kwargs) ==
    LET base == DesignDefinition(design, name, map_fun, reduce_fun, language,
                                 options, None, Del(kwargs, "wrapper"))
    IN  [x \in (DOMAIN base) \cup {"wrapper"} |->
            IF x = "wrapper"
            THEN (IF "wrapper" \in DOMAIN kwargs THEN kwargs["wrapper"]
                                                 ELSE None)
            ELSE IF x = "cls" THEN "ViewDefinition" ELSE base[x]]

\* FilterDefinition.__init__
FilterDefinition(design, name, filter_fun, language, options, defaults) ==
    [DesignDefinition(design, name, None, None, language, options,
                      filter_fun, defaults) EXCEPT !.cls = "FilterDefinition"]

\* ------------------------------------------------------- database handle
\* '_design/%s' % design
DocId(design) == <<DesignPrefix>> \o design

\* db.get(doc_id, default)
DbGet(d, doc_id, default) == IF doc_id \in DOMAIN d THEN d[doc_id] ELSE default

\* db.update(docs): the documents are stored in the order submitted
RECURSIVE DbUpdate(_, _)
DbUpdate(d, docs) ==
    IF docs = <<>> THEN d
    ELSE DbUpdate(Put(d, Head(docs)["_id"], Head(docs)), Tail(docs))

\* ------------------------------------------------------------- sync_many
\* length of the first run of definitions sharing Head(views).design
RunLen(views) ==
    CHOOSE n \in 1..Len(views) :
        /\ \A i \in 1..n : views[i].design = views[1].design
        /\ n = Len(views) \/ views[n + 1].design # views[1].design

\* itertools.groupby(views, key=attrgetter('design')): contiguous runs
RECURSIVE GroupBy(_)
GroupBy(views) ==
    IF views = <<>> THEN <<>>
    ELSE LET n == RunLen(views)
         IN  <<SubSeq(views, 1, n)>> \o GroupBy(SubSeq(views, n + 1, Len(views)))

\* the funcs bundle built for one definition
Funcs(view) ==
    LET f1 == IF Truthy(view.map_fun) THEN Put(Empty, "map", view.map_fun)
                                      ELSE Empty
        f2 == IF Truthy(view.reduce_fun) THEN Put(f1, "reduce", view.reduce_fun)
                                         ELSE f1
    IN  IF Truthy(view.options) THEN Put(f2, "options", view.options) ELSE f2

\* the section the loop body writes a definition into
SectionOf(view) == IF Truthy(view.filter_fun) THEN "filters" ELSE "views"

\* the value the loop body stores under the definition's name
ValueOf(view) == IF Truthy(view.filter_fun) THEN view.filter_fun ELSE Funcs(view)

\* one iteration of "for view in views" on the loop state st;
\* st.writer and st.trace are history only (who wrote an entry, and where)
ApplyView(st, view) ==
    LET sec  == SectionOf(view)
        doc1 == SetDefault(st.doc, sec)
        doc2 == Put(doc1, sec, Put(doc1[sec], view.name, ValueOf(view)))
    IN  [doc             |-> doc2,
         orig_doc        |-> st.orig_doc,
         missing_views   |-> IF sec = "views" THEN st.missing_views \ {view.name}
                                              ELSE st.missing_views,
         missing_filters |-> IF sec = "filters"
                             THEN st.missing_filters \ {view.name}
                             ELSE st.missing_filters,
         languages       |-> st.languages \cup {view.language},
         writer          |-> Put(st.writer, <<sec, view.name>>, view.language),
         trace           |-> Append(st.trace, sec)]

RECURSIVE ApplyViews(_, _)
ApplyViews(st, views) ==
    IF views = <<>> THEN st
    ELSE ApplyViews(ApplyView(st, Head(views)), Tail(views))

\* for name in names: del d[sec][name]
RECURSIVE DelAll(_, _, _)
DelAll(d, sec, names) ==
    IF names = {} THEN d
    ELSE LET n == CHOOSE x \in names : TRUE
         IN  DelAll(Put(d, sec, Del(d[sec], n)), sec, names \ {n})

\* the document after "if remove_missing: ..."
RemoveMissing(st, remove_missing) ==
    IF remove_missing
    THEN DelAll(DelAll(st.doc, "views", st.missing_views),
                "filters", st.missing_filters)
    ELSE st.doc

\* Languages without the elif branch (a faulty variant)
LanguagesNoElif(st, remove_missing) == st.languages

\* the language set after "elif (missing_views or missing_filters) and ..."
Languages(st, remove_missing) ==
    IF /\ ~remove_missing
       /\ (st.missing_views # {} \/ st.missing_filters # {})
       /\ "language" \in DOMAIN st.doc
    THEN st.languages \cup {st.doc["language"]}
    ELSE st.languages

\* Changed without the comparison (a faulty variant)
ChangedAlways(doc, orig_doc) == TRUE

\* doc != orig_doc
Changed(doc, orig_doc) == doc # orig_doc

\* history: the writer map once the stale entries are gone
WriterAfter(st, remove_missing) ==
    IF remove_missing
    THEN [e \in {x \in DOMAIN st.writer :
                    /\ ~(x[1] = "views" /\ x[2] \in st.missing_views)
                    /\ ~(x[1] = "filters" /\ x[2] \in st.missing_filters)}
            |-> st.writer[e]]
    ELSE st.writer

\* the loop state at the top of a group's body: doc, orig_doc, the removal
\* candidates and the empty language set
StartFrom(doc, writer) ==
    [doc             |-> doc,
     orig_doc        |-> doc,
     missing_views   |-> Keys(doc, "views"),
     missing_filters |-> Keys(doc, "filters"),
     languages       |-> {},
     writer          |-> writer,
     trace           |-> <<>>]

\* doc = db.get(doc_id, {'_id': doc_id}) and what follows up to the inner loop
Start(d, w, doc_id) ==
    StartFrom(DbGet(d, doc_id, [_id |-> doc_id]), DbGet(w, doc_id, Empty))

\* from "if len(languages) > 1" to the end of the group's body: raise, or set
\* the language and tell whether the document changed
Conclude(st, doc, languages, writer) ==
    IF Cardinality(languages) > 1
    THEN [raised |-> TRUE, changed |-> FALSE, doc |-> doc, writer |-> writer,
          trace |-> st.trace]
    ELSE [raised  |-> FALSE,
          changed |-> Changed(Put(doc, "language", CHOOSE l \in languages : TRUE),
                              st.orig_doc),
          doc     |-> Put(doc, "language", CHOOSE l \in languages : TRUE),
          writer  |-> writer,
          trace   |-> st.trace]

\* the group's body after the inner loop
Finish(st, remove_missing) ==
    Conclude(st, RemoveMissing(st, remove_missing),
             Languages(st, remove_missing), WriterAfter(st, remove_missing))

\* the body of "for design, views in groupby(...)" for one group
ProcessGroup(d, w, group, remove_missing) ==
    Finish(ApplyViews(Start(d, w, DocId(group[1].design)), group),
           remove_missing)

\* what one group's outcome g adds to docs, to the callback's calls and to
\* the history
Collect(acc, g, callback) ==
    [raised    |-> g.raised,
     docs      |-> IF g.changed THEN Append(acc.docs, g.doc) ELSE acc.docs,
     writers   |-> IF g.changed THEN Append(acc.writers, g.writer)
                                ELSE acc.writers,
     callbacks |-> IF g.changed /\ callback THEN Append(acc.callbacks, g.doc)
                                            ELSE acc.callbacks,
     trace     |-> acc.trace \o g.trace]

\* the loop over the groups, until it ends or a group raises ValueError
RECURSIVE Groups(_, _, _, _, _, _)
Groups(d, w, groups, remove_missing, callback, acc) ==
    IF groups = <<>> \/ acc.raised THEN acc
    ELSE Groups(d, w, Tail(groups), remove_missing, callback,
                Collect(acc, ProcessGroup(d, w, Head(groups), remove_missing),
                        callback))

\* sync_many up to, not including, db.update(docs)
Run(d, w, views, remove_missing, callback) ==
    Groups(d, w, GroupBy(views), remove_missing, callback,
           [raised |-> FALSE, docs |-> <<>>, writers |-> <<>>,
            callbacks |-> <<>>, trace |-> <<>>])

\* ReachesUpdate when the queued documents are flushed on an error too (a
\* faulty variant)
ReachesUpdateAlways(r) == TRUE

\* whether control reaches db.update(docs): not when a group raised
ReachesUpdate(r) == ~r.raised

\* number of db.update calls of the run
BulkCalls(r) == IF ReachesUpdate(r) THEN 1 ELSE 0

\* history: writer maps stored along with the documents
RECURSIVE WriterUpdate(_, _, _)
WriterUpdate(w, docs, writers) ==
    IF docs = <<>> THEN w
    ELSE WriterUpdate(Put(w, Head(docs)["_id"], Head(writers)),
                      Tail(docs), Tail(writers))

\* ------------------------------------------------ ViewDefinition.__call__
\* MergedOptions with the update the other way round (a faulty variant)
MergedOptionsDefaultsWin(view, options) ==
    LET merged == [k \in (DOMAIN view.defaults) \cup (DOMAIN options) |->
                      IF k \in DOMAIN view.defaults THEN view.defaults[k]
                                                    ELSE options[k]]
    IN  IF "wrapper" \notin DOMAIN merged
        THEN Put(merged, "wrapper", view.wrapper) ELSE merged

\* merged_options of __call__: defaults, then the call's options, then the
\* definition's wrapper when no 'wrapper' key is there yet
MergedOptions(view, options) ==
    LET merged == [k \in (DOMAIN view.defaults) \cup (DOMAIN options) |->
                      IF k \in DOMAIN options THEN options[k]
                                              ELSE view.defaults[k]]
    IN  IF "wrapper" \notin DOMAIN merged
        THEN Put(merged, "wrapper", view.wrapper) ELSE merged

\* '/'.join([self.design, self.name])
ViewPath(view) == view.design \o <<"/", view.name>>

\* ------------------------------------------------------------------ inputs
Javascript == "javascript"

Python == "python"

\* an options dict such as {'collation': 'raw'}
OptRaw == "{'collation': 'raw'}"

DesignA == <<"A">>

DesignB == <<"B">>

\* all dicts over a subset of the keys of vals, each key with its value
Dicts(vals) == {[k \in ks |-> vals[k]] : ks \in SUBSET DOMAIN vals}

\* keyword arguments given when a view definition is invoked
CallOptions == Dicts([limit |-> "5", skip |-> "1", wrapper |-> "Doc"])

\* the constructor calls the caller may write
Constructed ==
    { ViewDefinition(<<DesignPrefix, "A">>, "a", "m1", None, Javascript, None,
                     [limit |-> "10", wrapper |-> "Row"]),
      ViewDefinition(DesignA, "a", "", None, Javascript, None, Empty),
      ViewDefinition(DesignA, "b", "m1", None, Python, None, Empty),
      ViewDefinition(DesignA, "b", None, None, Python, None, Empty),
      FilterDefinition(DesignA, "b", "f1", Python, None, Empty),
      FilterDefinition(DesignA, "b", None, Python, None, Empty),
      DesignDefinition(DesignA, "a", "m1", None, Javascript, None, "f1", Empty),
      ViewDefinition(DesignB, "a", "m2", "r1", Javascript, OptRaw,
                     [limit |-> "10"]) }

\* those whose construction passes the assertion: the definitions that exist
SyncDefs == {d \in Constructed : AssertHolds(d.map_fun, d.filter_fun)}

\* a design document that is in the database before this module writes to it
StoredAB ==
    [_id      |-> DocId(DesignA),
     views    |-> [a |-> [map |-> "m0"], b |-> [map |-> "m0"]],
     language |-> Javascript]

\* one stored by hand, without a language field
StoredNoLanguage ==
    [_id     |-> DocId(DesignA),
     views   |-> [b |-> [map |-> "m0"]],
     filters |-> [a |-> "f0"]]

InitDbs ==
    {Empty, Put(Empty, DocId(DesignA), StoredAB),
     Put(Empty, DocId(DesignA), StoredNoLanguage)}

\* history for the entries of documents this module did not write
UnknownWriter(doc) ==
    [e \in ({"views"} \X Keys(doc, "views"))
           \cup ({"filters"} \X Keys(doc, "filters")) |-> "unknown"]

\* ----------------------------------------------------------------- actions
NoCall == [op |-> "none"]

Init ==
    /\ db \in InitDbs
    /\ dbWriter = [id \in DOMAIN db |-> UnknownWriter(db[id])]
    /\ pending = <<>>
    /\ last = NoCall

InitEmpty ==
    /\ db = Empty
    /\ dbWriter = Empty
    /\ pending = <<>>
    /\ last = NoCall

\* the caller constructs one more definition for the list it is building
Construct(view) ==
    /\ Len(pending) < MaxLen
    /\ pending' = Append(pending, view)
    /\ last' = NoCall
    /\ UNCHANGED <<db, dbWriter>>

\* db.update(docs) when the run r reaches it, and the record of the call
Effect(op, views, remove_missing, callback, r) ==
    /\ db' = IF BulkCalls(r) > 0 THEN DbUpdate(db, r.docs) ELSE db
    /\ dbWriter' = IF BulkCalls(r) > 0
                   THEN WriterUpdate(dbWriter, r.docs, r.writers)
                   ELSE dbWriter
    /\ pending' = <<>>
    /\ last' = [op             |-> op,
                views          |-> views,
                remove_missing |-> remove_missing,
                callback       |-> callback,
                pre            |-> db,
                raised         |-> r.raised,
                queued         |-> r.docs,
                docs           |-> IF BulkCalls(r) > 0 THEN r.docs ELSE <<>>,
                updates        |-> BulkCalls(r),
                callbacks      |-> r.callbacks,
                trace          |-> r.trace]

\* a whole sync_many call, db.update included
SyncEffect(op, views, remove_missing, callback) ==
    Effect(op, views, remove_missing, callback,
           Run(db, dbWriter, views, remove_missing, callback))

\* DesignDefinition.sync_many(db, pending, remove_missing, callback);
\* callback tells whether one is passed
SyncMany(remove_missing, callback) ==
    SyncEffect("sync_many", pending, remove_missing, callback)

\* view.sync(db), on the definition just constructed: no callback
Sync ==
    /\ Len(pending) = 1
    /\ SyncEffect("sync", pending, FALSE, FALSE)

\* view(db, **options), on the view definition just constructed
Call(options) ==
    /\ Len(pending) = 1
    /\ pending[1].cls = "ViewDefinition"
    /\ last' = [op      |-> "call",
                view    |-> pending[1],
                options |-> options,
                path    |-> ViewPath(pending[1]),
                kwargs  |-> MergedOptions(pending[1], options)]
    /\ pending' = <<>>
    /\ UNCHANGED <<db, dbWriter>>

Next ==
    \/ \E view \in SyncDefs : Construct(view)
    \/ \E remove_missing \in BOOLEAN, callback \in BOOLEAN :
          SyncMany(remove_missing, callback)
    \/ Sync
    \/ \E options \in CallOptions : Call(options)

Spec == Init /\ [][Next]_vars

SpecEmpty == InitEmpty /\ [][Next]_vars

\* ------------------------------------------------------------- properties
IsSync == last.op \in {"sync", "sync_many"}

Succeeded == IsSync /\ ~last.raised

\* the definitions of the call that address the same entry as d
SameEntry(d, e) ==
    /\ d.design = e.design
    /\ Truthy(d.filter_fun) = Truthy(e.filter_fun)
    /\ d.name = e.name

\* the last definition of views addressing the entry of views[i]
LastFor(views, i) ==
    views[CHOOSE j \in DOMAIN views :
            /\ SameEntry(views[i], views[j])
            /\ \A k \in DOMAIN views : SameEntry(views[i], views[k]) => k <= j]

\* the section and value a definition is expected to end up as
Expected(d) ==
    IF Truthy(d.filter_fun)
    THEN [sec |-> "filters", val |-> d.filter_fun]
    ELSE [sec |-> "views",   val |-> Funcs(d)]

\* the stored document of d's design holds e's value under d's name
Holds(d, e) ==
    LET id == DocId(d.design)
        x  == Expected(e)
    IN  /\ id \in DOMAIN db
        /\ x.sec \in DOMAIN db[id]
        /\ d.name \in DOMAIN db[id][x.sec]
        /\ db[id][x.sec][d.name] = x.val

\* definitions of one design stand next to each other in the list
Contiguous(views) ==
    \A i, j \in DOMAIN views :
        (i < j /\ views[i].design = views[j].design)
            => \A k \in i..j : views[k].design = views[i].design

\* C1: after a successful sync_many, for every definition d of the list the
\* document '_design/<d.design>' exists and holds, under d's name in d's
\* section, the value of the last definition for the same entry -- for any
\* list, whether or not definitions of one design are adjacent.
C1_StoredMatchesDefinitions ==
    Succeeded =>
        \A i \in DOMAIN last.views :
            Holds(last.views[i], LastFor(last.views, i))

\* C1, for lists that are grouped by design: holds (a sanity check of the
\* diagnosis, not the claim)
C1_WhenContiguous ==
    (Succeeded /\ Contiguous(last.views)) =>
        \A i \in DOMAIN last.views :
            Holds(last.views[i], LastFor(last.views, i))

\* what a sync_many call with the arguments of the last one would submit now
Submits(r) == IF ReachesUpdate(r) THEN r.docs ELSE <<>>

Resubmitted ==
    Submits(Run(db, dbWriter, last.views, last.remove_missing, last.callback))

\* C2: sync_many is idempotent: after a successful call, a second call with
\* the same definitions and the same remove_missing submits zero documents.
C2_Idempotent == Succeeded => Resubmitted = <<>>

C2_WhenContiguous ==
    (Succeeded /\ Contiguous(last.views)) => Resubmitted = <<>>

\* the names the call's definitions give for section sec of design
NamedBy(views, design, sec) ==
    {views[i].name : i \in {j \in DOMAIN views :
                              /\ views[j].design = design
                              /\ Expected(views[j]).sec = sec}}

\* documents the call has definitions for, stored before the call with
\* entries that no definition of the call names
WithStale ==
    {id \in DOMAIN last.pre :
        /\ \E i \in DOMAIN last.views : DocId(last.views[i].design) = id
        /\ \E sec \in {"views", "filters"} :
              Keys(last.pre[id], sec)
                 \ NamedBy(last.views, Tail(id), sec) # {}}

StaleHandled(id) ==
    IF last.remove_missing
    THEN \A sec \in {"views", "filters"} :
            Keys(db[id], sec) = NamedBy(last.views, Tail(id), sec)
    ELSE /\ \A sec \in {"views", "filters"} :
              \A n \in Keys(last.pre[id], sec)
                         \ NamedBy(last.views, Tail(id), sec) :
                  /\ n \in Keys(db[id], sec)
                  /\ db[id][sec][n] = last.pre[id][sec][n]
         /\ \A i \in DOMAIN last.views :
              DocId(last.views[i].design) = id
                  => Holds(last.views[i], LastFor(last.views, i))

\* C3: for a stored document with entries no definition names: with
\* remove_missing the document ends up with exactly the names the definitions
\* give; without it the other entries stay, unchanged, and the named entries
\* hold the definitions' values.
C3_StaleEntries == Succeeded => \A id \in WithStale : StaleHandled(id)

C3_WhenContiguous ==
    (Succeeded /\ Contiguous(last.views)) => \A id \in WithStale : StaleHandled(id)

\* two definitions of the list for different views of one design document
\* with different languages
LanguagesDiffer(views) ==
    \E i, j \in DOMAIN views :
        /\ views[i].design = views[j].design
        /\ views[i].name # views[j].name
        /\ views[i].language # views[j].language

\* C4: with remove_missing=False, a list holding two definitions for
\* different views of one design document with different languages makes
\* sync_many fail, wherever the two stand in the list.
C4_LanguageConflictRaises ==
    (IsSync /\ ~last.remove_missing /\ LanguagesDiffer(last.views))
        => last.raised

C4_WhenContiguous ==
    (IsSync /\ ~last.remove_missing /\ LanguagesDiffer(last.views)
            /\ Contiguous(last.views))
        => last.raised

\* the document stored under id when the call started, or the skeleton
StoredBefore(id) == DbGet(last.pre, id, [_id |-> id])

\* C5: a successful sync_many makes exactly one bulk-update call and every
\* document in it differs from what was stored under its id when the call
\* started; a document whose merged content equals the stored one is not
\* submitted.
C5_OnlyChangedSubmitted ==
    Succeeded =>
        /\ last.updates = 1
        /\ \A i \in DOMAIN last.docs :
              last.docs[i] # StoredBefore(last.docs[i]["_id"])

\* a successful call that left one group's document out and submitted another
C5_Witness ==
    /\ Succeeded
    /\ Len(last.docs) >= 1
    /\ Len(GroupBy(last.views)) > Len(last.docs)

\* C6: when sync_many fails with the language conflict, the bulk update is
\* never called and the database is as before the call, also when earlier
\* groups had queued changed documents.
C6_FailureWritesNothing ==
    (IsSync /\ last.raised) =>
        /\ last.updates = 0
        /\ last.docs = <<>>
        /\ db = last.pre

\* a failed call that had documents queued when it raised
C6_Witness ==
    /\ IsSync
    /\ last.raised
    /\ last.queued # <<>>
    /\ db = last.pre

\* C7: the callback is called once for each document the call submits to the
\* bulk update, and never for a document the call does not submit.
C7_CallbackIffSubmitted ==
    (IsSync /\ last.callback) => last.callbacks = last.docs

C7_WhenSucceeded ==
    (Succeeded /\ last.callback) => last.callbacks = last.docs

\* C8: invoking a view definition passes to db.view, under '<design>/<name>',
\* the defaults overridden by the call's options, plus 'wrapper' set to the
\* definition's wrapper exactly when the call's options have no 'wrapper'.
C8_CallPassesMergedOptions ==
    last.op = "call" =>
        LET v == last.view
            o == last.options
            k == last.kwargs
        IN  /\ last.path = v.design \o <<"/", v.name>>
            /\ DOMAIN k = (DOMAIN v.defaults) \cup (DOMAIN o) \cup {"wrapper"}
            /\ \A key \in DOMAIN o : k[key] = o[key]
            /\ \A key \in (DOMAIN v.defaults) \ (DOMAIN o) :
                  k[key] = v.defaults[key]
            /\ "wrapper" \notin DOMAIN o => k["wrapper"] = v.wrapper

\* a call overriding a default, with the definition's own wrapper injected
C8_Witness ==
    /\ last.op = "call"
    /\ "limit" \in DOMAIN last.view.defaults
    /\ "limit" \in DOMAIN last.options
    /\ last.view.defaults["limit"] # last.options["limit"]
    /\ "wrapper" \notin DOMAIN last.options
    /\ last.view.wrapper # None
    /\ last.kwargs["wrapper"] = last.view.wrapper

\* C9: every definition that can be constructed has exactly one of map body
\* and filter body present, and sync_many never writes one with a map body
\* into filters nor one with a filter body into views.
C9_ExactlyOneSection ==
    IsSync =>
        \A i \in DOMAIN last.views :
            LET d == last.views[i]
            IN  /\ Truthy(d.map_fun) # Truthy(d.filter_fun)
                /\ i <= Len(last.trace) =>
                      /\ Truthy(d.map_fun) => last.trace[i] # "filters"
                      /\ Truthy(d.filter_fun) => last.trace[i] # "views"

\* all entries of the stored document id
Entries(id) ==
    ({"views"} \X Keys(db[id], "views")) \cup ({"filters"} \X Keys(db[id], "filters"))

\* C10: starting from an empty database, every stored design document has a
\* language field and each of its view and filter entries was last written
\* by a definition of that language.
C10_OneLanguage ==
    \A id \in DOMAIN db :
        /\ "language" \in DOMAIN db[id]
        /\ \A e \in Entries(id) :
              /\ e \in DOMAIN dbWriter[id]
              /\ dbWriter[id][e] = db[id]["language"]

\* a document of two entries whose language a successful call has switched
C10_Witness ==
    /\ Succeeded
    /\ \E id \in (DOMAIN db) \cap (DOMAIN last.pre) :
          /\ Cardinality(Entries(id)) >= 2
          /\ last.pre[id]["language"] # db[id]["language"]
====
